---- MODULE Spec2Model ----
(***************************************************************************)
(* Model of doc/doxygen-xml/tasks/xsl_transform.py: the command line       *)
(* dispatch, xsl_transform, xsl_transform_list_inplace, transform_doc and  *)
(* save_doc, one action per statement that has an observable effect.       *)
(*                                                                         *)
(* Strings (paths, file texts) are sequences of one-character strings.     *)
(* The file system maps the paths that exist to their text.                *)
(***************************************************************************)
EXTENDS Integers, Sequences, FiniteSets, TLC

\* ---------------------------------------------------------------- bounds
MaxFiles == 3
MaxArgc == 5

\* ------------------------------------------------------------- alphabet
NL == "\n"
SEP == ";"

\* names of the input files a command line may list (one may be empty)
PathNames == { <<>>, <<"a">>, <<"b">> }
\* stylesheet paths given on the command line
XslPaths == { <<"s">>, <<"a">> }
\* output paths given to the three-argument form
OutPaths == { <<>>, <<"a">>, <<"b">>, <<"o">> }

\* texts the files hold when the script starts ("!" is malformed markup,
\* "I", "S", "F" are stylesheets, "p", "q" are document elements)
ContentA == { <<"p">>, <<"!">>, <<"I">> }
ContentB == { <<"q", "p">> }
ContentS == { <<"I">>, <<"S">>, <<"F">>, <<"!">>, <<"p">> }

\* ------------------------------------------------------------ functions

\* the lists of at most n path names, at least one
RECURSIVE Lists(_)
Lists(n) ==
    IF n = 0 THEN { <<>> }
    ELSE LET shorter == Lists(n - 1)
         IN  shorter \cup { Append(l, p) : l \in shorter, p \in PathNames }

\* a CMake-style list: the names joined by ';'
RECURSIVE Join(_)
Join(l) ==
    IF Len(l) = 0 THEN <<>>
    ELSE IF Len(l) = 1 THEN l[1]
    ELSE l[1] \o <<SEP>> \o Join(Tail(l))

\* index of the first sep in s, 0 if there is none
RECURSIVE Find(_, _, _)
Find(s, sep, i) ==
    IF i > Len(s) THEN 0
    ELSE IF s[i] = sep THEN i
    ELSE Find(s, sep, i + 1)

\* str.split(';') that drops empty pieces
RECURSIVE SplitNonEmpty(_)
SplitNonEmpty(s) ==
    LET i == Find(s, SEP, 1)
    IN  IF i = 0 THEN (IF s = <<>> THEN <<>> ELSE <<s>>)
        ELSE (IF i = 1 THEN <<>> ELSE <<SubSeq(s, 1, i - 1)>>)
             \o SplitNonEmpty(SubSeq(s, i + 1, Len(s)))

\* str.split(';')
RECURSIVE Split(_)
Split(s) ==
    LET i == Find(s, SEP, 1)
    IN  IF i = 0 THEN <<s>>
        ELSE <<SubSeq(s, 1, i - 1)>> \o Split(SubSeq(s, i + 1, Len(s)))

\* the dispatch on len(sys.argv), taking 3 or more arguments as the single form
DispatchAtLeast(argc) ==
    IF argc >= 4 THEN "single" ELSE IF argc = 3 THEN "batch" ELSE "usage"

\* the dispatch on len(sys.argv)
Dispatch(argc) ==
    IF argc = 4 THEN "single" ELSE IF argc = 3 THEN "batch" ELSE "usage"

\* a text without its trailing line ends
RECURSIVE StripTrailing(_)
StripTrailing(t) ==
    IF Len(t) > 0 /\ t[Len(t)] = NL
    THEN StripTrailing(SubSeq(t, 1, Len(t) - 1))
    ELSE t

\* ET.parse succeeds on a text: one root element, no malformed markup
WellFormed(t) ==
    /\ StripTrailing(t) # <<>>
    /\ \A i \in 1..Len(StripTrailing(t)) : StripTrailing(t)[i] \notin {"!", NL}

\* the tree ET.parse builds from a well-formed text
TreeOf(t) == StripTrailing(t)

\* ET.XSLT succeeds on a tree: it is a stylesheet
IsStylesheet(tree) == tree \in { <<"I">>, <<"S">>, <<"F">> }

\* the compiled transform raises on a document
ApplyFails(prog, tree) == prog = "F" /\ tree[1] = "q"

Swap(c) == IF c = "p" THEN "q" ELSE IF c = "q" THEN "p" ELSE c

\* the result document of the compiled transform, as the engine serialises it
ApplyXslt(prog, tree) ==
    IF prog = "I" THEN tree ELSE [i \in 1..Len(tree) |-> Swap(tree[i])]

\* print(doc, file=f): str(doc) and the line end print adds
SaveText(doc) == Append(doc, NL)

\* the proper prefixes of a text: what a failed write leaves in the file
Prefixes(t) == { SubSeq(t, 1, n) : n \in 0..(Len(t) - 1) }

\* open(filename, 'w') can create or truncate the file
CanOpenForWrite(filename) == filename # <<>>

\* save_doc(transformed_doc, in_file)
SaveTargetInput(i, o) == i

\* the file transform_doc saves to: save_doc(transformed_doc, out_file)
SaveTarget(i, o) == o

\* ---------------------------------------------------------------- state
VARIABLES
    argv,            \* sys.argv, argv[1] is the program name
    fs,              \* the file system: existing path -> text
    fs0,             \* the file system when the script started
    pre,             \* the file system when transform_doc was last called
    stdout,          \* the lines printed to standard output
    pc,              \* the statement the script is at
    op,              \* the operation the dispatch chose
    xslFile,         \* parameter xslFile
    infiles,         \* parameter infiles of the batch
    idx,             \* position of the for loop in infiles
    in_file,         \* parameter in_file of transform_doc
    out_file,        \* parameter out_file of transform_doc
    xslt,            \* the parsed stylesheet tree
    transform,       \* the compiled transform
    doc,             \* the parsed input document
    transformed_doc, \* the result document
    exc,             \* the uncaught exception, "none" while there is none
    calls,           \* the operations called by the dispatch
    trace            \* the calls into the XSLT engine and the file system

vars == << argv, fs, fs0, pre, stdout, pc, op, xslFile, infiles, idx, in_file,
           out_file, xslt, transform, doc, transformed_doc, exc, calls, trace >>

locals == << xslFile, infiles, idx, in_file, out_file, xslt, transform,
             doc, transformed_doc >>

NoTransform == [id |-> 0, prog |-> "none"]

Event(e, p, d) == [ev |-> e, path |-> p, data |-> d]

\* the command lines: program name and 0 .. MaxArgc - 1 arguments
CommandLines ==
    { <<<<"x">>>> }
    \cup { <<<<"x">>, l>> : l \in PathNames }
    \cup { <<<<"x">>, Join(l), x>> : l \in Lists(MaxFiles) \ {<<>>}, x \in XslPaths }
    \cup { <<<<"x">>, i, x, o>> : i \in PathNames, x \in XslPaths, o \in OutPaths }
    \cup { <<<<"x">>, i, x, o>> \o [k \in 1..n |-> <<"x">>] :
             i \in {<<"a">>}, x \in {<<"s">>}, o \in {<<"o">>}, n \in 1..(MaxArgc - 4) }

\* the file systems the script starts in: a, b, s exist or not; o does not
FileSystems ==
    { fa @@ fb @@ fc :
        fa \in { <<"a">> :> t : t \in ContentA },
        fb \in { <<"b">> :> t : t \in ContentB } \cup { <<>> },
        fc \in { <<"s">> :> t : t \in ContentS } \cup { <<>> } }

Init ==
    /\ argv \in CommandLines
    /\ fs \in FileSystems
    /\ fs0 = fs
    /\ pre = fs
    /\ stdout = <<>>
    /\ pc = "main"
    /\ op = "none"
    /\ xslFile = <<>>
    /\ infiles = <<>>
    /\ idx = 0
    /\ in_file = <<>>
    /\ out_file = <<>>
    /\ xslt = <<>>
    /\ transform = NoTransform
    /\ doc = <<>>
    /\ transformed_doc = <<>>
    /\ exc = "none"
    /\ calls = <<>>
    /\ trace = <<>>

ARGC == Len(argv)

\* an exception in a loop round is dropped and the loop goes on
RaiseAndContinue(e) ==
    /\ exc' = e
    /\ pc' = IF op = "batch" /\ idx > 0 THEN "loop" ELSE "failed"

\* an exception leaves the script: nothing catches it
Raise(e) ==
    /\ exc' = e
    /\ pc' = "failed"

\* ---------------------------------------------------------------- main

\* if 4 == ARGC: xsl_transform(sys.argv[1], sys.argv[2], sys.argv[3])
MainSingle ==
    /\ pc = "main"
    /\ Dispatch(ARGC) = "single"
    /\ op' = "single"
    /\ calls' = Append(calls, [op |-> "single", infiles |-> <<argv[2]>>,
                               xslFile |-> argv[3], outfile |-> argv[4]])
    /\ in_file' = argv[2]
    /\ xslFile' = argv[3]
    /\ out_file' = argv[4]
    /\ pc' = "xsl_parse"
    /\ UNCHANGED << argv, fs0, pre, fs, stdout, infiles, idx, xslt, transform, doc,
                    transformed_doc, exc, trace >>

\* elif 3 == ARGC: xsl_transform_list_inplace(sys.argv[1].split(';'), sys.argv[2])
MainBatch ==
    /\ pc = "main"
    /\ Dispatch(ARGC) = "batch"
    /\ op' = "batch"
    /\ calls' = Append(calls, [op |-> "batch", infiles |-> Split(argv[2]),
                               xslFile |-> argv[3], outfile |-> <<>>])
    /\ infiles' = Split(argv[2])
    /\ xslFile' = argv[3]
    /\ idx' = 0
    /\ pc' = "xsl_parse"
    /\ UNCHANGED << argv, fs0, pre, fs, stdout, in_file, out_file, xslt, transform, doc,
                    transformed_doc, exc, trace >>

\* else: print("Transform error: Require 2 or 3 arguments")
MainUsage ==
    /\ pc = "main"
    /\ Dispatch(ARGC) = "usage"
    /\ op' = "usage"
    /\ stdout' = Append(stdout, [kind |-> "error", path |-> <<>>])
    /\ pc' = "done"
    /\ UNCHANGED << argv, fs0, pre, fs, locals, exc, calls, trace >>

\* ------------------------------------- xsl_transform / ..._list_inplace

\* xslt = ET.parse(xslFile), after the output file was opened for writing
XslParseAfterOpen ==
    /\ pc = "xsl_parse"
    /\ trace' = Append(trace, Event("xsl_parse", xslFile, <<>>))
    /\ fs' = IF op = "single" /\ CanOpenForWrite(out_file)
             THEN (out_file :> <<>>) @@ fs ELSE fs
    /\ IF xslFile \notin DOMAIN fs' THEN
            /\ Raise("IOError")
            /\ UNCHANGED xslt
       ELSE IF ~WellFormed(fs'[xslFile]) THEN
            /\ Raise("ParseError")
            /\ UNCHANGED xslt
       ELSE /\ xslt' = TreeOf(fs'[xslFile])
            /\ pc' = "xsl_compile"
            /\ UNCHANGED exc
    /\ UNCHANGED << argv, fs0, pre, stdout, op, xslFile, infiles, idx, in_file,
                    out_file, transform, doc, transformed_doc, calls >>

\* xslt = ET.parse(xslFile)
XslParse ==
    /\ pc = "xsl_parse"
    /\ trace' = Append(trace, Event("xsl_parse", xslFile, <<>>))
    /\ IF xslFile \notin DOMAIN fs THEN
            /\ Raise("IOError")
            /\ UNCHANGED xslt
       ELSE IF ~WellFormed(fs[xslFile]) THEN
            /\ Raise("ParseError")
            /\ UNCHANGED xslt
       ELSE /\ xslt' = TreeOf(fs[xslFile])
            /\ pc' = "xsl_compile"
            /\ UNCHANGED exc
    /\ UNCHANGED << argv, fs0, pre, fs, stdout, op, xslFile, infiles, idx, in_file,
                    out_file, transform, doc, transformed_doc, calls >>

\* the statement after save_doc returns: the end, or the next loop round
AfterSave(o) == IF o = "single" THEN "done" ELSE "loop"

\* transform = ET.XSLT(xslt)
XslCompile ==
    /\ pc = "xsl_compile"
    /\ trace' = Append(trace, Event("compile", xslFile, <<>>))
    /\ IF ~IsStylesheet(xslt) THEN
            /\ Raise("XSLTParseError")
            /\ UNCHANGED transform
       ELSE /\ transform' = [id |-> transform.id + 1, prog |-> xslt[1]]
            /\ pc' = IF op = "single" THEN "td_parse" ELSE "loop"
            /\ UNCHANGED exc
    /\ UNCHANGED << argv, fs0, pre, fs, stdout, op, xslFile, infiles, idx, in_file,
                    out_file, xslt, doc, transformed_doc, calls >>

\* the document the loop round works on
LoopDocFirst(l, i) == l[1]

LoopDoc(l, i) == l[i]

\* for docfile in infiles: with the stylesheet parsed and compiled per round
LoopNextRecompile ==
    /\ pc = "loop"
    /\ IF idx < Len(infiles) THEN
            /\ idx' = idx + 1
            /\ pc' = "notice"
            /\ transform' = [transform EXCEPT !.id = @ + 1]
            /\ trace' = trace \o << Event("xsl_parse", xslFile, <<>>),
                                    Event("compile", xslFile, <<>>) >>
       ELSE /\ pc' = "done"
            /\ UNCHANGED << idx, transform, trace >>
    /\ UNCHANGED << argv, fs0, pre, fs, stdout, op, xslFile, infiles, in_file,
                    out_file, xslt, doc, transformed_doc, exc, calls >>

\* for docfile in infiles:
LoopNext ==
    /\ pc = "loop"
    /\ IF idx < Len(infiles) THEN
            /\ idx' = idx + 1
            /\ pc' = "notice"
       ELSE /\ pc' = "done"
            /\ UNCHANGED idx
    /\ UNCHANGED << argv, fs0, pre, fs, stdout, op, xslFile, infiles, in_file, out_file,
                    xslt, transform, doc, transformed_doc, exc, calls, trace >>

\* transform_doc(docfile, transform, docfile) without the print before it
NoticeMissing ==
    /\ pc = "notice"
    /\ in_file' = LoopDoc(infiles, idx)
    /\ out_file' = LoopDoc(infiles, idx)
    /\ pre' = fs
    /\ pc' = "td_parse"
    /\ UNCHANGED << argv, fs0, fs, stdout, op, xslFile, infiles, idx, xslt,
                    transform, doc, transformed_doc, exc, calls, trace >>

\* print("Transform: ", docfile); transform_doc(docfile, transform, docfile)
Notice ==
    /\ pc = "notice"
    /\ stdout' = Append(stdout, [kind |-> "notice", path |-> LoopDoc(infiles, idx)])
    /\ in_file' = LoopDoc(infiles, idx)
    /\ out_file' = LoopDoc(infiles, idx)
    /\ pre' = fs
    /\ pc' = "td_parse"
    /\ UNCHANGED << argv, fs0, fs, op, xslFile, infiles, idx, xslt, transform, doc,
                    transformed_doc, exc, calls, trace >>

\* -------------------------------------------------------- transform_doc

\* doc = ET.parse(in_file), the target being opened for writing before it
TdParseAfterTruncate ==
    /\ pc = "td_parse"
    /\ fs' = IF CanOpenForWrite(out_file) THEN (out_file :> <<>>) @@ fs ELSE fs
    /\ IF in_file \notin DOMAIN fs' THEN
            /\ trace' = Append(trace, Event("parse", in_file, <<>>))
            /\ Raise("IOError")
            /\ UNCHANGED doc
       ELSE IF ~WellFormed(fs'[in_file]) THEN
            /\ trace' = Append(trace, Event("parse", in_file, fs'[in_file]))
            /\ Raise("ParseError")
            /\ UNCHANGED doc
       ELSE /\ trace' = Append(trace, Event("parse", in_file, fs'[in_file]))
            /\ doc' = TreeOf(fs'[in_file])
            /\ pc' = "td_apply"
            /\ UNCHANGED exc
    /\ UNCHANGED << argv, fs0, pre, stdout, op, xslFile, infiles, idx, in_file,
                    out_file, xslt, transform, transformed_doc, calls >>

\* doc = ET.parse(in_file)
TdParse ==
    /\ pc = "td_parse"
    /\ IF in_file \notin DOMAIN fs THEN
            /\ trace' = Append(trace, Event("parse", in_file, <<>>))
            /\ Raise("IOError")
            /\ UNCHANGED doc
       ELSE IF ~WellFormed(fs[in_file]) THEN
            /\ trace' = Append(trace, Event("parse", in_file, fs[in_file]))
            /\ Raise("ParseError")
            /\ UNCHANGED doc
       ELSE /\ trace' = Append(trace, Event("parse", in_file, fs[in_file]))
            /\ doc' = TreeOf(fs[in_file])
            /\ pc' = "td_apply"
            /\ UNCHANGED exc
    /\ UNCHANGED << argv, fs0, pre, fs, stdout, op, xslFile, infiles, idx, in_file,
                    out_file, xslt, transform, transformed_doc, calls >>

\* transformed_doc = xslt_tf(doc)
TdApply ==
    /\ pc = "td_apply"
    /\ trace' = Append(trace, Event("apply", in_file, <<transform.id>>))
    /\ IF ApplyFails(transform.prog, doc) THEN
            /\ Raise("TransformError")
            /\ UNCHANGED transformed_doc
       ELSE /\ transformed_doc' = ApplyXslt(transform.prog, doc)
            /\ pc' = "sd_open"
            /\ UNCHANGED exc
    /\ UNCHANGED << argv, fs0, pre, fs, stdout, op, xslFile, infiles, idx, in_file,
                    out_file, xslt, transform, doc, calls >>

\* ------------------------------------------------------------- save_doc

\* with open(filename, 'w') as f: the file is created or truncated
SdOpen ==
    /\ pc = "sd_open"
    /\ \E ok \in BOOLEAN :
         IF ok /\ CanOpenForWrite(SaveTarget(in_file, out_file)) THEN
              /\ fs' = (SaveTarget(in_file, out_file) :> <<>>) @@ fs
              /\ trace' = Append(trace, Event("open", SaveTarget(in_file, out_file), <<>>))
              /\ pc' = "sd_print"
              /\ UNCHANGED exc
         ELSE /\ Raise("IOError")
              /\ trace' = Append(trace, Event("open_failed", SaveTarget(in_file, out_file), <<>>))
              /\ UNCHANGED fs
    /\ UNCHANGED << argv, fs0, pre, stdout, op, locals, calls >>

\* print(doc, file=f), and the file is closed
SdPrint ==
    /\ pc = "sd_print"
    /\ \/ /\ fs' = [fs EXCEPT ![SaveTarget(in_file, out_file)] = SaveText(transformed_doc)]
          /\ trace' = Append(trace, Event("write", SaveTarget(in_file, out_file), SaveText(transformed_doc)))
          /\ pc' = AfterSave(op)
          /\ UNCHANGED exc
       \/ \E part \in Prefixes(SaveText(transformed_doc)) :
          /\ fs' = [fs EXCEPT ![SaveTarget(in_file, out_file)] = part]
          /\ trace' = Append(trace, Event("write_failed", SaveTarget(in_file, out_file), part))
          /\ Raise("IOError")
    /\ UNCHANGED << argv, fs0, pre, stdout, op, locals, calls >>

Next ==
    \/ MainSingle
    \/ MainBatch
    \/ MainUsage
    \/ XslParse
    \/ XslCompile
    \/ LoopNext
    \/ Notice
    \/ TdParse
    \/ TdApply
    \/ SdOpen
    \/ SdPrint

Spec == Init /\ [][Next]_vars

\* ------------------------------------------------------------ properties

IsParse(r) == r.ev = "parse"
IsWrite(r) == r.ev = "write"
IsNotice(r) == r.kind = "notice"

\* positions in the trace of the events of one kind
At(e) == { i \in 1..Len(trace) : trace[i].ev = e }
Count(e) == Cardinality(At(e))

Max(S) == CHOOSE m \in S : \A n \in S : n <= m

\* the input documents read so far, in the order they were read
Parsed == SelectSeq(trace, IsParse)
Written == SelectSeq(trace, IsWrite)

\* the paths the progress notices name, in the order they were printed
Noticed == [i \in 1..Len(stdout) |-> stdout[i].path]

Range(f) == { f[i] : i \in DOMAIN f }

\* the file p with the same existence and text in f and g
SameFile(f, g, p) ==
    /\ (p \in DOMAIN f) <=> (p \in DOMAIN g)
    /\ p \in DOMAIN f => f[p] = g[p]

\* what the stylesheet the script was started with makes of a text
Engine(text) == ApplyXslt(TreeOf(fs0[xslFile])[1], TreeOf(text))

\* C1: the dispatch is decided by len(sys.argv) alone: 4 runs the single
\* transform on (argv[1], argv[2], argv[3]), 3 runs the batch on the pieces
\* of argv[1] between the ';' (all of them, in order) with argv[2]; one
\* operation per run, called once.
C1_Dispatch ==
    /\ Len(calls) <= 1
    /\ (pc # "main" /\ ARGC = 4) =>
          /\ calls = << [op |-> "single", infiles |-> <<argv[2]>>,
                         xslFile |-> argv[3], outfile |-> argv[4]] >>
          /\ op = "single" /\ in_file = argv[2] /\ xslFile = argv[3]
          /\ out_file = argv[4]
    /\ (pc # "main" /\ ARGC = 3) =>
          /\ Len(calls) = 1 /\ calls[1].op = "batch" /\ op = "batch"
          /\ calls[1].infiles = infiles /\ calls[1].xslFile = xslFile
          /\ Join(infiles) = argv[2]
          /\ \A k \in 1..Len(infiles) : Find(infiles[k], SEP, 1) = 0
          /\ xslFile = argv[3]
    /\ ARGC \notin {3, 4} => calls = <<>>

C1_Witness ==
    /\ ARGC = 3 /\ pc # "main" /\ Len(calls) = 1
    /\ Len(infiles) = 3 /\ infiles[2] = <<>> /\ infiles[1] # infiles[3]

\* C2: after a successful single transform the output file holds exactly
\* the engine's serialisation of the stylesheet applied to the input, and
\* the transform was applied once.
C2_ExactBytes ==
    (op = "single" /\ pc = "done") =>
        /\ out_file \in DOMAIN fs
        /\ fs[out_file] = Engine(fs0[in_file])
        /\ Count("apply") = 1

\* C3: the batch reads the paths in list order, one at a time; every write
\* carries the transform of the text just read from that same path; the
\* next path is read only after the previous one was written; after a
\* successful batch every listed path holds the saved transform of its own
\* text as it was when it was last read.
C3_BatchOrder ==
    op = "batch" =>
        /\ Len(Parsed) <= Len(infiles)
        /\ \A k \in 1..Len(Parsed) : Parsed[k].path = infiles[k]
        /\ \A i \in At("open") \cup At("write") \cup At("write_failed") :
              /\ { j \in At("parse") : j < i } # {}
              /\ trace[Max({ j \in At("parse") : j < i })].path = trace[i].path
        /\ \A i \in At("write") :
              trace[i].data =
                 SaveText(Engine(trace[Max({ j \in At("parse") : j < i })].data))
        /\ \A i \in At("parse") :
              Cardinality({ j \in At("write") : j < i })
                 = Cardinality({ j \in At("parse") : j < i })
        /\ pc = "done" =>
              /\ Len(Parsed) = Len(infiles)
              /\ \A p \in Range(infiles) :
                    /\ p \in DOMAIN fs
                    /\ fs[p] = SaveText(Engine(
                          trace[Max({ j \in At("parse") : trace[j].path = p })].data))

C3_Witness ==
    /\ op = "batch" /\ pc = "done"
    /\ infiles = << <<"a">>, <<"b">>, <<"a">> >>
    /\ fs[<<"a">>] # fs0[<<"a">>] /\ fs[<<"b">>] # fs[<<"a">>]
    /\ fs[<<"b">>] = <<"p", "q", NL>>

\* C4: the stylesheet is parsed once and compiled once, before the first
\* input is read, and every document is transformed by that one compiled
\* transform, whatever the length of the list.
C4_CompileOnce ==
    /\ Count("xsl_parse") <= 1
    /\ Count("compile") <= 1
    /\ transform.id <= 1
    /\ op = "batch" =>
          /\ \A i \in At("parse") \cup At("apply") :
                At("compile") # {} /\ \A c \in At("compile") : c < i
          /\ \A i \in At("apply") : trace[i].data = <<1>>
          /\ pc \in {"loop", "notice", "done"} =>
                Count("xsl_parse") = 1 /\ Count("compile") = 1 /\ transform.id = 1

C4_Witness ==
    /\ op = "batch" /\ pc = "done" /\ Count("apply") = 3
    /\ Count("compile") = 1

\* the batch failed while it worked on the path at position idx
BatchFailed == op = "batch" /\ exc # "none" /\ idx >= 1

\* the text last written to path p
LastWritten(p) == trace[Max({ j \in At("write") : trace[j].path = p })].data

\* C5 (as stated): when the k-th path fails the batch stops with the error,
\* no later path is read, announced or written, and every earlier path
\* keeps the transformed text it received.
C5_EarlierKept ==
    /\ (op = "batch" /\ exc # "none") => pc = "failed"
    /\ BatchFailed =>
          /\ Len(Parsed) <= idx /\ Len(stdout) = idx /\ Len(Written) = idx - 1
          /\ \A j \in 1..(idx - 1) :
                /\ infiles[j] \in DOMAIN fs
                /\ fs[infiles[j]] = LastWritten(infiles[j])

\* C5 (amended): as above, for the earlier paths other than the failing
\* path itself.
C5_EarlierOthersKept ==
    /\ (op = "batch" /\ exc # "none") => pc = "failed"
    /\ BatchFailed =>
          /\ Len(Parsed) <= idx /\ Len(stdout) = idx /\ Len(Written) = idx - 1
          /\ \A j \in 1..(idx - 1) :
                infiles[j] # infiles[idx] =>
                   /\ infiles[j] \in DOMAIN fs
                   /\ fs[infiles[j]] = LastWritten(infiles[j])

C5_Witness ==
    /\ BatchFailed /\ pc = "failed" /\ idx = 3
    /\ infiles = << <<"b">>, <<"a">>, <<"a">> >>
    /\ trace[Len(trace)].ev = "write_failed"
    /\ fs[<<"b">>] = LastWritten(<<"b">>) /\ fs[<<"a">>] # LastWritten(<<"a">>)

\* C6: the single transform changes no file but the output file: with the
\* output path different from the input path the input file is as it was
\* at the start, in every state, the failed ones included.
C6_InputUntouched ==
    op = "single" =>
        /\ \A p \in (DOMAIN fs \cup DOMAIN fs0) \ {out_file} : SameFile(fs, fs0, p)
        /\ in_file # out_file => SameFile(fs, fs0, in_file)

C6_Witness ==
    /\ op = "single" /\ pc \in {"done", "failed"} /\ in_file # out_file
    /\ in_file \in DOMAIN fs /\ ~SameFile(fs, fs0, out_file)

\* C7: with an argument count other than 2 or 3 the script prints one error
\* message, ends normally, and touches neither the engine nor a file.
C7_Usage ==
    (ARGC \notin {3, 4} /\ pc # "main") =>
        /\ pc = "done" /\ exc = "none"
        /\ stdout = << [kind |-> "error", path |-> <<>>] >>
        /\ trace = <<>> /\ calls = <<>>
        /\ fs = fs0

C7_Witness == ARGC > 4 /\ pc = "done" /\ Len(stdout) = 1

\* the stylesheet the script was started with cannot be parsed or compiled
BadStylesheet ==
    \/ xslFile \notin DOMAIN fs0
    \/ fs0[xslFile] \in { <<"!">>, <<"p">> }

\* C8: the stylesheet is parsed and compiled before an input is read or a
\* file is opened for writing; a missing or bad stylesheet ends the single
\* transform and the batch with an error and every file as it was.
C8_StylesheetFirst ==
    op \in {"single", "batch"} =>
        /\ \A i \in At("parse") \cup At("apply") \cup At("open") \cup At("write")
                    \cup At("open_failed") \cup At("write_failed") :
              /\ i > 2 /\ trace[1].ev = "xsl_parse" /\ trace[2].ev = "compile"
              /\ transform.id = 1
        /\ transform.id = 0 => fs = fs0
        /\ (BadStylesheet /\ pc \notin {"xsl_parse", "xsl_compile"}) =>
              /\ pc = "failed" /\ exc # "none" /\ transform.id = 0
              /\ fs = fs0 /\ Len(trace) <= 2

C8_Witness ==
    /\ op = "single" /\ pc = "failed" /\ xslFile \notin DOMAIN fs0
    /\ in_file \in DOMAIN fs0 /\ out_file \notin DOMAIN fs /\ out_file # <<>>

\* C9: the notices are the first paths of the list, in list order; a path
\* is announced before it is read and after the previous one was written;
\* a failing path has its notice, later ones have none, and a stylesheet
\* failure leaves no notice at all.
C9_Notices ==
    op = "batch" =>
        /\ \A i \in 1..Len(stdout) : stdout[i].kind = "notice"
        /\ Len(stdout) = IF pc = "notice" THEN idx - 1 ELSE idx
        /\ Noticed = SubSeq(infiles, 1, Len(stdout))
        /\ Len(Parsed) <= Len(stdout)
        /\ Len(stdout) <= Len(Written) + 1
        /\ transform.id = 0 => stdout = <<>>
        /\ pc = "done" => Len(stdout) = Len(infiles)
        /\ (pc = "failed" /\ transform.id = 1) =>
              /\ Len(stdout) >= 1
              /\ Len(Parsed) = Len(stdout)
              /\ Len(Written) = Len(stdout) - 1

C9_Witness ==
    /\ op = "batch" /\ pc = "failed" /\ Len(infiles) = 3
    /\ Noticed = << <<"a">>, <<"b">> >>

\* C10: a target is opened for writing only after the input was parsed and
\* the transform applied; when the target is the input, the text parsed is
\* the text the file had when transform_doc was called, and a failed parse
\* or transform leaves the file as it was then.
C10_TruncateLast ==
    /\ \A i \in At("open") :
          /\ i > 2
          /\ trace[i - 1].ev = "apply" /\ trace[i - 2].ev = "parse"
          /\ WellFormed(trace[i - 2].data)
    /\ (in_file = out_file /\ pc \in {"td_apply", "sd_open", "sd_print"}) =>
          /\ in_file \in DOMAIN pre
          /\ trace[Max(At("parse"))].data = pre[in_file]
          /\ doc = TreeOf(pre[in_file])
    /\ (in_file = out_file /\ pc = "failed" /\ trace # <<>>
          /\ trace[Len(trace)].ev \in {"parse", "apply"}) =>
          /\ SameFile(fs, pre, in_file)
          /\ fs = pre

C10_Witness ==
    /\ op = "batch" /\ pc = "failed" /\ exc = "TransformError" /\ idx = 2
    /\ in_file = out_file /\ fs[in_file] = pre[in_file]
    /\ fs[in_file] # fs0[in_file]

====
